---- MODULE Spec2Model ----
(***************************************************************************)
(* A model of server.js: the three request handlers /api/extract,          *)
(* /api/download and /api/stream, with the pure helpers they call.         *)
(*                                                                         *)
(* JavaScript strings that the code inspects character by character (the   *)
(* tweet URL, the quality token, header names, the remote URL) are tuples  *)
(* of one-character strings.  Absent, undefined, null and "" are all       *)
(* falsy and the code never tells them apart for these inputs; they are    *)
(* the empty tuple.  One request is in flight at a time: the handlers      *)
(* share no state, so interleaving requests adds nothing.                  *)
(***************************************************************************)
EXTENDS Integers, Sequences, FiniteSets, TLC

VARIABLES pc, route, url, quality, remoteUrl, command, execs, fetches,
          formats, upstream, res, sent, chunks, failure

vars == <<pc, route, url, quality, remoteUrl, command, execs, fetches,
          formats, upstream, res, sent, chunks, failure>>

\* ------------------------------------------------------------- bounds

\* The longest formats list the extractor returns in the model.
MaxFormats == 2

\* The most body chunks one relay writes in the model.
MaxChunks == 2

\* ------------------------------------------------------------ strings

Absent == <<>>

Truthy(s) == s # Absent

Digits == <<"0", "1", "2", "3", "4", "5", "6", "7", "8", "9">>

IsDigit(c) == \E i \in 1..Len(Digits) : Digits[i] = c

DigitVal(c) == (CHOOSE i \in 1..Len(Digits) : Digits[i] = c) - 1

UpperCase == <<"A", "B", "C", "D", "E", "F", "G", "H", "I", "J", "K", "L", "M",
               "N", "O", "P", "Q", "R", "S", "T", "U", "V", "W", "X", "Y", "Z">>

LowerCase == <<"a", "b", "c", "d", "e", "f", "g", "h", "i", "j", "k", "l", "m",
               "n", "o", "p", "q", "r", "s", "t", "u", "v", "w", "x", "y", "z">>

IsLetter(c) == \E i \in 1..Len(UpperCase) : c = UpperCase[i] \/ c = LowerCase[i]

LowerChar(c) ==
    IF \E i \in 1..Len(UpperCase) : UpperCase[i] = c
    THEN LowerCase[CHOOSE i \in 1..Len(UpperCase) : UpperCase[i] = c]
    ELSE c

\* String.prototype.toLowerCase
toLowerCase(s) == [i \in 1..Len(s) |-> LowerChar(s[i])]

\* ----------------------------------------------------- regular expressions
\* A pattern element maps the set of positions a match may have reached to
\* the set it may reach next (position p: the next character is s[p]).

\* A literal.
Lit(s, P, lit) ==
    { p + Len(lit) : p \in { q \in P : /\ q + Len(lit) - 1 <= Len(s)
                                       /\ \A i \in 1..Len(lit) : s[q + i - 1] = lit[i] } }

\* (lit)?
Opt(s, P, lit) == P \cup Lit(s, P, lit)

\* [^/]+
PlusNotSlash(s, P) ==
    { e \in 1..(Len(s) + 1) : \E p \in P : /\ p < e
                                           /\ \A i \in p..(e - 1) : s[i] # "/" }

\* \d+
PlusDigit(s, P) ==
    { e \in 1..(Len(s) + 1) : \E p \in P : /\ p < e
                                           /\ \A i \in p..(e - 1) : IsDigit(s[i]) }

\* ^https?:\/\/(www\.)?
SchemeAndWww(s) ==
    Opt(s, Lit(s, Opt(s, Lit(s, {1}, <<"h", "t", "t", "p">>), <<"s">>),
               <<":", "/", "/">>),
        <<"w", "w", "w", ".">>)

\* /^https?:\/\/(www\.)?(twitter|x)\.com\/[^/]+\/status\/\d+/
Pattern1(s) ==
    LET host == Lit(s, SchemeAndWww(s), <<"t", "w", "i", "t", "t", "e", "r">>)
                \cup Lit(s, SchemeAndWww(s), <<"x">>)
        user == PlusNotSlash(s, Lit(s, host, <<".", "c", "o", "m", "/">>))
    IN  PlusDigit(s, Lit(s, user, <<"/", "s", "t", "a", "t", "u", "s", "/">>))

\* /^https?:\/\/(www\.)?twitter\.com\/i\/web\/status\/\d+/
Pattern2(s) ==
    LET host == Lit(s, SchemeAndWww(s), <<"t", "w", "i", "t", "t", "e", "r">>)
    IN  PlusDigit(s, Lit(s, host, <<".", "c", "o", "m", "/", "i", "/", "w", "e", "b",
                                    "/", "s", "t", "a", "t", "u", "s", "/">>))

\* patterns.some(pattern => pattern.test(url)): neither pattern is anchored
\* at the end, so a match may stop anywhere.
isValidTwitterUrl(s) == Pattern1(s) # {} \/ Pattern2(s) # {}

\* A guard that forgets the pattern test: !url alone.
UrlRejectedWhenMissing(s) == ~Truthy(s)

\* !url || !isValidTwitterUrl(url)
UrlRejected(s) == ~Truthy(s) \/ ~isValidTwitterUrl(s)

\* `yt-dlp -J "${url}"`
Command(s) ==
    <<"y", "t", "-", "d", "l", "p", " ", "-", "J", " ", "\"">> \o s \o <<"\"">>

\* new URL(remoteUrl) throws unless the string is an absolute URL: a scheme,
\* a letter followed by letters, digits, "+", "-" or ".", and then ":".
ParsesAsURL(s) ==
    \E p \in 2..Len(s) :
        /\ s[p] = ":"
        /\ IsLetter(s[1])
        /\ \A i \in 1..(p - 1) : IsLetter(s[i]) \/ IsDigit(s[i]) \/ s[i] \in {"+", "-", "."}

\* Number(quality) for a string: its decimal value, or NaN.
Number(q) ==
    LET val[i \in 0..Len(q)] == IF i = 0 THEN 0 ELSE 10 * val[i - 1] + DigitVal(q[i])
    IN  IF \A i \in 1..Len(q) : IsDigit(q[i])
        THEN [nan |-> FALSE, val |-> val[Len(q)]]
        ELSE [nan |-> TRUE, val |-> 0]

\* ------------------------------------------------------------- formats
\* A format carries the fields the handlers read.  format_id is the
\* format's place in the extractor's list.  A codec is a string, "none", or
\* absent; a height is a positive number, or absent.

Undefined == "undefined"

Null == "null"

\* height: null is written as 0, a height normalizeFormats never yields
\* (f.height || null turns 0 into null).
NullHeight == 0

\* f.acodec || null, f.vcodec || null
OrNull(c) == IF c \in {Undefined, Null, ""} THEN Null ELSE c

\* f.height || null
HeightOrNull(h) == IF h # 0 THEN h ELSE NullHeight

normalizeFormat(f) ==
    [format_id |-> f.format_id,
     height    |-> HeightOrNull(f.height),
     url       |-> f.url,
     acodec    |-> OrNull(f.acodec),
     vcodec    |-> OrNull(f.vcodec)]

\* formats.map(f => ({...})): one record for one, in order.
normalizeFormats(raw) == [i \in 1..Len(raw) |-> normalizeFormat(raw[i])]

\* f.vcodec !== 'none' && f.acodec !== 'none'
IsVideoCombined(f) == f.vcodec # "none" /\ f.acodec # "none"

\* f.vcodec !== 'none' && (!f.acodec || f.acodec === 'none')
IsVideoOnly(f) == f.vcodec # "none" /\ (f.acodec = Null \/ f.acodec = "none")

\* f.acodec !== 'none' && (f.vcodec === 'none' || !f.vcodec)
IsAudioOnly(f) == f.acodec # "none" /\ (f.vcodec = "none" \/ f.vcodec = Null)

videoCombined(fs) == SelectSeq(fs, IsVideoCombined)

videoOnly(fs) == SelectSeq(fs, IsVideoOnly)

audioOnly(fs) == SelectSeq(fs, IsAudioOnly)

\* (x.height || 0)
HeightOr0(f) == IF f.height # NullHeight THEN f.height ELSE 0

\* The comparator (a, b) => (b.height || 0) - (a.height || 0): negative
\* when a goes first.
CompareHeightDesc(a, b) == HeightOr0(b) - HeightOr0(a)

\* Array.prototype.sort is stable: x goes behind every element that does
\* not compare after it.
RECURSIVE InsertSorted(_, _)
InsertSorted(sorted, x) ==
    IF sorted = <<>> THEN <<x>>
    ELSE IF CompareHeightDesc(sorted[1], x) <= 0
         THEN <<sorted[1]>> \o InsertSorted(Tail(sorted), x)
         ELSE <<x>> \o sorted

\* arr.slice().sort((a, b) => (b.height || 0) - (a.height || 0))
RECURSIVE sortByHeightDesc(_)
sortByHeightDesc(arr) ==
    IF arr = <<>> THEN <<>>
    ELSE InsertSorted(sortByHeightDesc(SubSeq(arr, 1, Len(arr) - 1)), arr[Len(arr)])

\* arr[0]: a tuple holding the element, or the empty tuple for undefined.
First(arr) == IF arr = <<>> THEN <<>> ELSE <<arr[1]>>

\* a || b on two such values.
OrElse(a, b) == IF a # <<>> THEN a ELSE b

\* arr.slice(0, n)
Slice(arr, n) == SubSeq(arr, 1, IF n < Len(arr) THEN n ELSE Len(arr))

MaxCombinedListed == 8

MaxVideoListed == 8

MaxAudioListed == 4

\* combinedSorted[0] || videoSorted[0] || formats[0]
directPlayable(fs) ==
    OrElse(First(sortByHeightDesc(videoCombined(fs))),
           OrElse(First(sortByHeightDesc(videoOnly(fs))), First(fs)))

\* The formats of the /api/extract response.
ResponseFormats(fs) ==
    Slice(sortByHeightDesc(videoCombined(fs)), MaxCombinedListed)
    \o Slice(sortByHeightDesc(videoOnly(fs)), MaxVideoListed)
    \o Slice(audioOnly(fs), MaxAudioListed)

\* The body /api/extract answers with; directPlayable is a tuple holding
\* the candidate's url, or the empty tuple for null.
ExtractBody(fs) ==
    [formats          |-> ResponseFormats(fs),
     hasAudioSeparate |-> Len(audioOnly(fs)) > 0,
     directPlayable   |-> [i \in 1..Len(directPlayable(fs)) |->
                              [url |-> directPlayable(fs)[i].url]]]

\* f.height && f.height <= maxH
HeightWithin(f, maxH) ==
    f.height # NullHeight /\ ~maxH.nan /\ f.height <= maxH.val

\* The quality-capped branch of /api/download.
ChosenCapped(fs, maxH) ==
    LET combined(f) == HeightWithin(f, maxH) /\ f.vcodec # "none" /\ f.acodec # "none"
        video(f)    == HeightWithin(f, maxH) /\ f.vcodec # "none"
    IN  OrElse(First(sortByHeightDesc(SelectSeq(fs, combined))),
               First(sortByHeightDesc(SelectSeq(fs, video))))

\* A default branch that forgets to sort: the first combined format, else
\* the first format with video.
ChosenBestUnsorted(fs) ==
    LET combined(f) == f.vcodec # "none" /\ f.acodec # "none"
        video(f)    == f.vcodec # "none"
    IN  OrElse(First(SelectSeq(fs, combined)), First(SelectSeq(fs, video)))

\* The default branch of /api/download: best combined or best video-only.
ChosenBest(fs) ==
    LET combined(f) == f.vcodec # "none" /\ f.acodec # "none"
        video(f)    == f.vcodec # "none"
    IN  OrElse(First(sortByHeightDesc(SelectSeq(fs, combined))),
               First(sortByHeightDesc(SelectSeq(fs, video))))

\* quality && quality !== 'best'
IsCapped(q) == Truthy(q) /\ q # <<"b", "e", "s", "t">>

Chosen(fs, q) == IF IsCapped(q) THEN ChosenCapped(fs, Number(q)) ELSE ChosenBest(fs)

\* !chosen || !chosen.url
NoDownloadUrl(chosen) == chosen = <<>> \/ ~Truthy(chosen[1].url)

\* -------------------------------------------------------------- inputs

\* Tweet URLs a client may post: a scheme, a host, a path up to the status
\* id, the id, and what follows it.
UrlSchemes == { <<"h", "t", "t", "p", "s", ":", "/", "/">>,
                <<"h", "t", "t", "p", ":", "/", "/">>,
                <<"f", "t", "p", ":", "/", "/">> }

UrlHosts == { <<"x", ".", "c", "o", "m">>,
              <<"w", "w", "w", ".", "t", "w", "i", "t", "t", "e", "r", ".", "c", "o", "m">>,
              <<"e", "x", "a", "m", "p", "l", "e", ".", "c", "o", "m">> }

UrlPaths == { <<"/", "u", "/", "s", "t", "a", "t", "u", "s", "/">>,
              <<"/", "i", "/", "w", "e", "b", "/", "s", "t", "a", "t", "u", "s", "/">> }

UrlIds == { <<"1", "2">>, <<"x">> }

UrlTails == { <<>>, <<"\"", ";", "i", "d", ";", "\"">> }

TweetUrls ==
    {Absent} \cup { a \o b \o c \o d \o e : a \in UrlSchemes, b \in UrlHosts,
                                          c \in UrlPaths, d \in UrlIds, e \in UrlTails }

Qualities == { Absent, <<"b", "e", "s", "t">>, <<"2", "0", "0">>, <<"3", "6", "0">>,
               <<"a", "b", "c">> }

RemoteUrls ==
    { Absent,
      <<"h", "t", "t", "p", "s", ":", "/", "/", "v", "i", "d", "e", "o", ".", "t", "w",
        "i", "m", "g", ".", "c", "o", "m", "/", "v", ".", "m", "p", "4">>,
      <<"n", "o", "t", " ", "a", " ", "u", "r", "l">>,
      <<"/", "/", "v", "i", "d", "e", "o", ".", "t", "w", "i", "m", "g", ".", "c", "o",
        "m", "/", "v", ".", "m", "p", "4">> }

\* What the extractor may report for one format.
RawChoices ==
    [height : {0, 360, 720}, acodec : {Undefined, "none", "mp4a"},
     vcodec : {Undefined, "none", "h264"}, hasUrl : BOOLEAN]

\* The url of the format at place i: the places have different urls.
UrlOf(i) == [j \in 1..i |-> "u"]

RawFormat(c, i) ==
    [format_id |-> i, height |-> c.height, acodec |-> c.acodec, vcodec |-> c.vcodec,
     url |-> IF c.hasUrl THEN UrlOf(i) ELSE Absent]

\* The formats lists the extractor may print.
RawLists ==
    UNION { { [i \in 1..n |-> RawFormat(cs[i], i)] : cs \in [1..n -> RawChoices] } :
            n \in 0..MaxFormats }

UpstreamStatuses == {200, 206, 404, 416}

HeaderNames == { <<"C", "o", "n", "t", "e", "n", "t", "-", "T", "y", "p", "e">>,
                 <<"c", "o", "n", "t", "e", "n", "t", "-", "r", "a", "n", "g", "e">>,
                 <<"t", "r", "a", "i", "l", "e", "r">>,
                 <<"T", "r", "a", "n", "s", "f", "e", "r", "-", "E", "n", "c", "o", "d",
                   "i", "n", "g">>,
                 <<"T", "E">>,
                 <<"k", "e", "e", "p", "-", "a", "l", "i", "v", "e">> }

HeaderValues == {"v1", "v2"}

\* The header sets an upstream response may carry.
UpstreamHeaders == UNION { [S -> HeaderValues] : S \in SUBSET HeaderNames }

\* --------------------------------------------------------------- state

NoHeaders == [n \in {} |-> "v1"]

NoBody == [kind |-> "none"]

ErrorBody(msg) == [kind |-> "error", error |-> msg]

FreshResponse ==
    [statusCode |-> 200, headers |-> NoHeaders, headersSent |-> FALSE, body |-> NoBody]

NoUpstream == [status |-> 0, headers |-> NoHeaders]

NoFailure == [kind |-> "none", begun |-> FALSE]

\* The handler's url binding once nothing reads it any more.
Discarded == <<"discarded">>

Init ==
    /\ pc = "idle"
    /\ route = "none"
    /\ url = Absent
    /\ quality = Absent
    /\ remoteUrl = Absent
    /\ command = Absent
    /\ execs = 0
    /\ fetches = 0
    /\ formats = <<>>
    /\ upstream = NoUpstream
    /\ res = FreshResponse
    /\ sent = <<>>
    /\ chunks = 0
    /\ failure = NoFailure

\* res.status(code).json(body): the head goes out with the headers set so
\* far, then the body.
Respond(code, body) ==
    /\ res' = [res EXCEPT !.statusCode = code, !.headersSent = TRUE, !.body = body]
    /\ sent' = Append(sent, [status |-> code, headers |-> res.headers])

\* ------------------------------------------------- /api/extract, /api/download

\* The two handlers up to their await of execPromise: a rejected url is
\* answered 400 at once, any other starts the extractor.
ReceivePost(r, u, q) ==
    /\ pc = "idle"
    /\ route' = r
    /\ url' = u
    /\ quality' = q
    /\ IF UrlRejected(u)
       THEN /\ Respond(400, ErrorBody("Invalid Twitter/X URL"))
            /\ pc' = "done"
            /\ UNCHANGED <<command, execs>>
       ELSE /\ command' = Command(u)
            /\ execs' = execs + 1
            /\ pc' = "exec"
            /\ UNCHANGED <<res, sent>>
    /\ UNCHANGED <<remoteUrl, fetches, formats, upstream, chunks, failure>>

\* app.post('/api/extract', ...): the body holds url only.
PostExtract == \E u \in TweetUrls : ReceivePost("extract", u, Absent)

\* app.post('/api/download', ...): the body holds url and quality.
PostDownload == \E u \in TweetUrls, q \in Qualities : ReceivePost("download", u, q)

\* The rest of /api/extract once the extractor has printed a document
\* with the formats list raw.
ExtractAnswer(raw) == Respond(200, [kind |-> "extract"] @@ ExtractBody(normalizeFormats(raw)))

\* The rest of /api/download once the extractor has printed a document
\* with the formats list raw.
DownloadAnswer(raw) ==
    LET chosen == Chosen(normalizeFormats(raw), quality)
    IN  IF NoDownloadUrl(chosen)
        THEN Respond(500, ErrorBody("Could not find a download URL for that quality"))
        ELSE Respond(200, [kind |-> "download", downloadUrl |-> chosen[1].url])

\* execPromise resolves with a JSON document on stdout.
ExecResolve ==
    /\ pc = "exec"
    /\ \E raw \in RawLists :
          /\ formats' = normalizeFormats(raw)
          /\ IF route = "extract" THEN ExtractAnswer(raw) ELSE DownloadAnswer(raw)
    /\ pc' = "done"
    /\ url' = Discarded
    /\ command' = Absent
    /\ UNCHANGED <<route, quality, remoteUrl, execs, fetches, upstream, chunks, failure>>

\* execPromise resolves with nothing on stdout: /api/extract answers so,
\* /api/download fails in JSON.parse and answers from its catch.
ExecResolveEmpty ==
    /\ pc = "exec"
    /\ IF route = "extract"
       THEN Respond(500, ErrorBody("yt-dlp returned empty output"))
       ELSE Respond(500, ErrorBody("Failed to get download URL"))
    /\ pc' = "done"
    /\ url' = Discarded
    /\ command' = Absent
    /\ UNCHANGED <<route, quality, remoteUrl, execs, fetches, formats, upstream, chunks,
                   failure>>

\* execPromise rejects: the extractor failed, or was killed at the timeout.
ExecReject ==
    /\ pc = "exec"
    /\ \E killed \in BOOLEAN :
          IF route = "extract"
          THEN IF killed
               THEN Respond(408, ErrorBody("Request timeout. Please try again."))
               ELSE Respond(500, ErrorBody("Failed to extract video"))
          ELSE Respond(500, ErrorBody("Failed to get download URL"))
    /\ pc' = "done"
    /\ url' = Discarded
    /\ command' = Absent
    /\ UNCHANGED <<route, quality, remoteUrl, execs, fetches, formats, upstream, chunks,
                   failure>>

\* ---------------------------------------------------------------- /api/stream

hopByHop == { <<"c", "o", "n", "n", "e", "c", "t", "i", "o", "n">>,
              <<"k", "e", "e", "p", "-", "a", "l", "i", "v", "e">>,
              <<"p", "r", "o", "x", "y", "-", "a", "u", "t", "h", "e", "n", "t", "i",
                "c", "a", "t", "e">>,
              <<"p", "r", "o", "x", "y", "-", "a", "u", "t", "h", "o", "r", "i", "z",
                "a", "t", "i", "o", "n">>,
              <<"t", "e">>,
              <<"t", "r", "a", "i", "l", "e", "r", "s">>,
              <<"t", "r", "a", "n", "s", "f", "e", "r", "-", "e", "n", "c", "o", "d",
                "i", "n", "g">>,
              <<"u", "p", "g", "r", "a", "d", "e">> }

\* A test that forgets toLowerCase: hopByHop.includes(name).
IsHopByHopExact(name) == name \in hopByHop

\* hopByHop.includes(name.toLowerCase())
IsHopByHop(name) == toLowerCase(name) \in hopByHop

\* upstream.headers.forEach(...): res.setHeader for every name that is not
\* hop-by-hop.
ForwardHeaders(old, hs) ==
    LET copied == { n \in DOMAIN hs : ~IsHopByHop(n) }
    IN  [n \in (DOMAIN old) \cup copied |-> IF n \in copied THEN hs[n] ELSE old[n]]

\* A catch that answers whatever has been sent.
CatchRespondsAlways(r) == TRUE

\* if (!res.headersSent)
CatchResponds(r) == ~r.headersSent

\* The catch of /api/stream after a failure of the given kind.
Catch(kind) ==
    /\ failure' = [kind |-> kind, begun |-> sent # <<>>]
    /\ IF CatchResponds(res)
       THEN Respond(500, ErrorBody("stream failed"))
       ELSE UNCHANGED <<res, sent>>
    /\ pc' = "done"

\* app.get('/api/stream', ...) up to its await of fetch.
GetStream ==
    /\ pc = "idle"
    /\ route' = "stream"
    /\ \E r \in RemoteUrls :
          /\ remoteUrl' = r
          /\ IF ~Truthy(r)
             THEN /\ Respond(400, ErrorBody("remoteUrl required"))
                  /\ pc' = "done"
                  /\ UNCHANGED <<fetches, failure>>
             ELSE IF ~ParsesAsURL(r)
                  THEN Catch("url") /\ UNCHANGED fetches
                  ELSE /\ fetches' = fetches + 1
                       /\ pc' = "fetch"
                       /\ UNCHANGED <<res, sent, failure>>
    /\ UNCHANGED <<url, quality, command, execs, formats, upstream, chunks>>

\* fetch resolves: the status and the headers are put on res, and the
\* handler awaits the pipeline.
FetchResolve ==
    /\ pc = "fetch"
    /\ \E st \in UpstreamStatuses, hs \in UpstreamHeaders :
          /\ upstream' = [status |-> st, headers |-> hs]
          /\ res' = [res EXCEPT !.statusCode = st,
                                !.headers = ForwardHeaders(res.headers, hs)]
    /\ pc' = "pipe"
    /\ UNCHANGED <<route, url, quality, remoteUrl, command, execs, fetches, formats,
                   sent, chunks, failure>>

\* fetch rejects.
FetchReject ==
    /\ pc = "fetch"
    /\ Catch("fetch")
    /\ UNCHANGED <<route, url, quality, remoteUrl, command, execs, fetches, formats,
                   upstream, chunks>>

\* The head as the first write or the end sends it.
Flush ==
    IF res.headersSent
    THEN UNCHANGED <<res, sent>>
    ELSE /\ res' = [res EXCEPT !.headersSent = TRUE, !.body = [kind |-> "stream"]]
         /\ sent' = Append(sent, [status |-> res.statusCode, headers |-> res.headers])

\* The pipeline writes a chunk of the upstream body to res.
PipeWrite ==
    /\ pc = "pipe"
    /\ chunks < MaxChunks
    /\ Flush
    /\ chunks' = chunks + 1
    /\ UNCHANGED <<pc, route, url, quality, remoteUrl, command, execs, fetches, formats,
                   upstream, failure>>

\* The upstream body ends: the pipeline ends res.
PipeEnd ==
    /\ pc = "pipe"
    /\ Flush
    /\ pc' = "done"
    /\ UNCHANGED <<route, url, quality, remoteUrl, command, execs, fetches, formats,
                   upstream, chunks, failure>>

\* The upstream body fails: the pipeline rejects.
PipeError ==
    /\ pc = "pipe"
    /\ Catch("body")
    /\ UNCHANGED <<route, url, quality, remoteUrl, command, execs, fetches, formats,
                   upstream, chunks>>

\* The request is over; the next one starts from fresh request-scoped state.
Finish ==
    /\ pc = "done"
    /\ pc' = "idle"
    /\ route' = "none"
    /\ url' = Absent
    /\ quality' = Absent
    /\ remoteUrl' = Absent
    /\ command' = Absent
    /\ execs' = 0
    /\ fetches' = 0
    /\ formats' = <<>>
    /\ upstream' = NoUpstream
    /\ res' = FreshResponse
    /\ sent' = <<>>
    /\ chunks' = 0
    /\ failure' = NoFailure

Next ==
    \/ PostExtract
    \/ PostDownload
    \/ ExecResolve
    \/ ExecResolveEmpty
    \/ ExecReject
    \/ GetStream
    \/ FetchResolve
    \/ FetchReject
    \/ PipeWrite
    \/ PipeEnd
    \/ PipeError
    \/ Finish

Spec == Init /\ [][Next]_vars

\* The relay alone: every request is a /api/stream request.
NextStream ==
    \/ GetStream
    \/ FetchResolve
    \/ FetchReject
    \/ PipeWrite
    \/ PipeEnd
    \/ PipeError
    \/ Finish

SpecStream == Init /\ [][NextStream]_vars

\* The selection alone: every request posts the same accepted tweet URL,
\* which the selection never reads, and the extractor prints any list.
SampleUrl ==
    <<"h", "t", "t", "p", "s", ":", "/", "/", "x", ".", "c", "o", "m", "/", "u", "/",
      "s", "t", "a", "t", "u", "s", "/", "1", "2">>

PostExtractSample == ReceivePost("extract", SampleUrl, Absent)

PostDownloadSample == \E q \in Qualities : ReceivePost("download", SampleUrl, q)

NextSelect ==
    \/ PostExtractSample
    \/ PostDownloadSample
    \/ ExecResolve
    \/ ExecResolveEmpty
    \/ ExecReject
    \/ Finish

SpecSelect == Init /\ [][NextSelect]_vars

\* ============================================================== claims

\* The classes as the data model defines them: a codec is present when the
\* field is there and is not "none".
Present(c) == c # Null /\ c # "none"

SpecCombined(f) == Present(f.vcodec) /\ Present(f.acodec)

SpecVideoOnly(f) == Present(f.vcodec) /\ ~Present(f.acodec)

SpecAudioOnly(f) == Present(f.acodec) /\ ~Present(f.vcodec)

\* The number of places of the sequence s that hold x.
Count(s, x) == Cardinality({ i \in 1..Len(s) : s[i] = x })

\* The heights along s never go up.
NonIncreasing(s) == \A i \in 1..(Len(s) - 1) : HeightOr0(s[i]) >= HeightOr0(s[i + 1])

\* Every format of the list has a url.
AllHaveUrl(fs) == \A i \in 1..Len(fs) : Truthy(fs[i].url)

\* Every format of the list has a height.
AllHaveHeight(fs) == \A i \in 1..Len(fs) : fs[i].height # NullHeight

\* Every format of the list states both codecs, as a codec or as "none".
AllStateCodecs(fs) == \A i \in 1..Len(fs) : fs[i].vcodec # Null /\ fs[i].acodec # Null

\* /api/extract has answered with its document.
ExtractAnswered == route = "extract" /\ pc = "done" /\ res.body.kind = "extract"

\* C1: in /api/extract every normalized format is in the combined bucket
\* iff both codecs are present and not "none", in the video-only bucket iff
\* only the video codec is, in the audio-only bucket iff only the audio
\* codec is; a format with neither codec is in no bucket and no format is
\* in two, so a format is listed in the response as often as it has a class.
C1_BucketsFollowDefinition ==
    ExtractAnswered =>
        \A i \in 1..Len(formats) :
            LET f == formats[i]
            IN  /\ Count(videoCombined(formats), f) = 1 <=> SpecCombined(f)
                /\ Count(videoOnly(formats), f) = 1 <=> SpecVideoOnly(f)
                /\ Count(audioOnly(formats), f) = 1 <=> SpecAudioOnly(f)
                /\ Count(res.body.formats, f)
                     = IF SpecCombined(f) \/ SpecVideoOnly(f) \/ SpecAudioOnly(f)
                       THEN 1 ELSE 0

\* The candidate the best-effort policy names: the highest combined
\* format, else the highest video-only format, else the first of the list.
BestEffort(fs) ==
    OrElse(First(sortByHeightDesc(SelectSeq(fs, SpecCombined))),
           OrElse(First(sortByHeightDesc(SelectSeq(fs, SpecVideoOnly))), First(fs)))

\* C2: directPlayable of /api/extract is taken from the highest combined
\* format, else from the highest video-only format, else from the first
\* format of the list, and is null iff the list is empty; with no combined
\* format and a video-only one, it is never an audio-only format.  (Stated
\* for the lists whose formats all have a url, which tells them apart.)
C2_DirectPlayableIsBestEffort ==
    (ExtractAnswered /\ AllHaveUrl(formats)) =>
        /\ res.body.directPlayable
             = [i \in 1..Len(BestEffort(formats)) |-> [url |-> BestEffort(formats)[i].url]]
        /\ res.body.directPlayable = <<>> <=> formats = <<>>

\* The format the quality-capped policy names under the ceiling maxH, an
\* absent height counting as 0: the highest combined format within the
\* ceiling, else the highest format with video within it.
Capped(fs, maxH) ==
    LET within(f)   == HeightOr0(f) <= maxH
        combined(f) == SpecCombined(f) /\ within(f)
        video(f)    == Present(f.vcodec) /\ within(f)
    IN  OrElse(First(sortByHeightDesc(SelectSeq(fs, combined))),
               First(sortByHeightDesc(SelectSeq(fs, video))))

\* The 'no match' answer of /api/download.
NoMatch == ErrorBody("Could not find a download URL for that quality")

\* /api/download has run its selection: it answered with a download URL or
\* with the 'no match' error.
Selected ==
    /\ route = "download"
    /\ pc = "done"
    /\ res.body.kind = "download" \/ res.body = NoMatch

\* C3: /api/download with a numeric ceiling answers with the highest
\* combined format within the ceiling, else with the highest format with
\* video within it, else with the 500 'no match' error; it never answers
\* with a format above the ceiling.  (Stated for the lists whose formats
\* all have a url and a height.)
C3_CappedSelection ==
    (Selected /\ IsCapped(quality) /\ ~Number(quality).nan
     /\ AllHaveUrl(formats) /\ AllHaveHeight(formats)) =>
        LET want == Capped(formats, Number(quality).val)
        IN  IF want = <<>>
            THEN res.statusCode = 500 /\ res.body = NoMatch
            ELSE /\ res.statusCode = 200
                 /\ res.body.kind = "download"
                 /\ res.body.downloadUrl = want[1].url

\* C4 as stated: /api/download with quality omitted or "best" selects the
\* candidate /api/extract reports as directPlayable for the same list, the
\* first element of the list included when no format has video.  (Stated
\* for the lists whose formats all have a url.)
C4_Original ==
    (Selected /\ ~IsCapped(quality) /\ AllHaveUrl(formats)
     /\ ExtractBody(formats).directPlayable # <<>>) =>
        /\ res.statusCode = 200
        /\ res.body.kind = "download"
        /\ res.body.downloadUrl = ExtractBody(formats).directPlayable[1].url

\* C4: /api/download with quality omitted or "best" selects the candidate
\* /api/extract reports as directPlayable for the same list whenever some
\* format has a vcodec other than "none" and that candidate has a url;
\* otherwise it answers 500 'Could not find a download URL for that
\* quality'.  The answer is the same for both values of quality.
C4_BestMatchesExtract ==
    (Selected /\ ~IsCapped(quality)) =>
        LET dp == ExtractBody(formats).directPlayable
        IN  IF /\ \E i \in 1..Len(formats) : formats[i].vcodec # "none"
               /\ Truthy(dp[1].url)
            THEN /\ res.statusCode = 200
                 /\ res.body.kind = "download"
                 /\ res.body.downloadUrl = dp[1].url
            ELSE /\ res.statusCode = 500
                 /\ res.body = NoMatch

\* /api/download with quality "best" has answered with the second format of
\* a list of two, the higher one.
C4_Witness ==
    /\ Selected
    /\ quality = <<"b", "e", "s", "t">>
    /\ Len(formats) = 2
    /\ formats[1].height = 360
    /\ formats[2].height = 720
    /\ res.statusCode = 200
    /\ res.body.kind = "download"
    /\ res.body.downloadUrl = formats[2].url

\* The eight names the relay must not forward.
EightNames == { <<"c", "o", "n", "n", "e", "c", "t", "i", "o", "n">>,
                <<"k", "e", "e", "p", "-", "a", "l", "i", "v", "e">>,
                <<"p", "r", "o", "x", "y", "-", "a", "u", "t", "h", "e", "n", "t", "i",
                  "c", "a", "t", "e">>,
                <<"p", "r", "o", "x", "y", "-", "a", "u", "t", "h", "o", "r", "i", "z",
                  "a", "t", "i", "o", "n">>,
                <<"t", "e">>,
                <<"t", "r", "a", "i", "l", "e", "r", "s">>,
                <<"t", "r", "a", "n", "s", "f", "e", "r", "-", "e", "n", "c", "o", "d",
                  "i", "n", "g">>,
                <<"u", "p", "g", "r", "a", "d", "e">> }

\* No header of hs has one of the eight names, in any case of letters.
NoneOfTheEight(hs) == \A n \in DOMAIN hs : toLowerCase(n) \notin EightNames

\* The head mirrors the upstream response: its status, and every header
\* of it but the eight.
Mirrors(head) ==
    /\ head.status = upstream.status
    /\ \A n \in DOMAIN upstream.headers :
          toLowerCase(n) \notin EightNames =>
              n \in DOMAIN head.headers /\ head.headers[n] = upstream.headers[n]
    /\ NoneOfTheEight(head.headers)

\* An upstream response has come and a head has gone to the client.
Relayed == route = "stream" /\ upstream # NoUpstream /\ sent # <<>>

C7_BadRemoteUrlIsClientError ==
    (route = "stream" /\ pc = "done" /\ (~Truthy(remoteUrl) \/ ~ParsesAsURL(remoteUrl))) =>
        /\ sent # <<>>
        /\ sent[1].status \in 400..499

\* C8: the formats of the /api/extract response are at most 8 combined
\* formats, then at most 8 video-only formats, then at most 4 audio-only
\* formats, the heights never going up inside a segment, each segment
\* holding the highest of its bucket.  (Stated for the lists whose formats
\* all state both codecs.)
C8_SegmentsSortedAndCapped ==
    (ExtractAnswered /\ AllStateCodecs(formats)) =>
        \E a \in 0..MaxCombinedListed, b \in 0..MaxVideoListed, c \in 0..MaxAudioListed :
            LET listed == res.body.formats
                seg1   == SubSeq(listed, 1, a)
                seg2   == SubSeq(listed, a + 1, a + b)
                seg3   == SubSeq(listed, a + b + 1, a + b + c)
            IN  /\ Len(listed) = a + b + c
                /\ seg1 = Slice(sortByHeightDesc(SelectSeq(formats, SpecCombined)),
                                MaxCombinedListed)
                /\ seg2 = Slice(sortByHeightDesc(SelectSeq(formats, SpecVideoOnly)),
                                MaxVideoListed)
                /\ \A i \in 1..Len(seg3) : SpecAudioOnly(seg3[i])
                /\ c = IF Len(SelectSeq(formats, SpecAudioOnly)) < MaxAudioListed
                       THEN Len(SelectSeq(formats, SpecAudioOnly)) ELSE MaxAudioListed
                /\ NonIncreasing(seg1) /\ NonIncreasing(seg2) /\ NonIncreasing(seg3)

\* The url a POST carried is missing or fails isValidTwitterUrl.
BadPostUrl == url # Discarded /\ (~Truthy(url) \/ ~isValidTwitterUrl(url))

\* The remoteUrl a GET carried is missing or does not parse.
BadRemoteUrl == ~Truthy(remoteUrl) \/ ~ParsesAsURL(remoteUrl)

\* C9: for a request with invalid input no collaborator is invoked:
\* /api/extract and /api/download answer 400 and the extractor is never
\* started, /api/stream answers with an error and fetch is never issued.
C9_NoCollaboratorOnInvalidInput ==
    /\ (route \in {"extract", "download"} /\ BadPostUrl) =>
          /\ execs = 0
          /\ command = Absent
          /\ pc = "done"
          /\ sent = <<[status |-> 400, headers |-> NoHeaders]>>
    /\ (route = "stream" /\ BadRemoteUrl) =>
          /\ fetches = 0
          /\ pc = "done"
          /\ Len(sent) = 1
          /\ sent[1].status >= 400
          /\ res.body.kind = "error"

\* /api/download has answered 400 to a url that is there and is not a
\* tweet URL, with no extractor started.
C9_Witness ==
    /\ route = "download"
    /\ Truthy(url)
    /\ ~isValidTwitterUrl(url)
    /\ pc = "done"
    /\ execs = 0
    /\ res.statusCode = 400

\* The number of double quotes in s.
Quotes(s) == Cardinality({ i \in 1..Len(s) : s[i] = "\"" })

\* C10: a url that isValidTwitterUrl accepts is a tweet URL and nothing
\* more, and holds no double quote, so the command the handlers run holds
\* the url as its one double-quoted argument.
C10_CommandHoldsOneQuotedUrl ==
    (pc = "exec") =>
        /\ (Len(url) + 1) \in (Pattern1(url) \cup Pattern2(url))
        /\ Quotes(url) = 0
        /\ Quotes(command) = 2

====
